---- MODULE Spec2Model ----
(***************************************************************************)
(* A model of the ensemble decision engine of resume-analyser             *)
(* (src/ensemble_model.py, class ResumeAnalyzer): feature extraction from  *)
(* resume text, rule-based category scoring, fusion with the classifier's  *)
(* probability vector and recommendation derivation.                       *)
(*                                                                         *)
(* Python floats are modelled as exact rationals <<n, d>> in lowest terms  *)
(* with d > 0; resume text is a TLA+ string, dicts are functions together  *)
(* with the insertion order of their keys where the code iterates them.    *)
(***************************************************************************)
EXTENDS Integers, Sequences, FiniteSets, TLC

VARIABLES
    label_map,        \* self.label_map: sequence of <<category name, id>> in file order
    id_to_label,      \* self.id_to_label: function id -> category name
    ml_weight,        \* self.ml_weight
    rule_weight,      \* self.rule_weight
    pc,               \* the operation that acted last
    resume_text,      \* argument of the latest predict call
    ml_pred_id,       \* classifier.predict(embedding)[0] of the latest call
    ml_probs,         \* classifier.predict_proba(embedding)[0] of the latest call
    features,         \* feature record handed to rule_based_score
    rule_probs,       \* rule distribution (returned by rule_based_score / handed to the fusion)
    result,           \* return value of the latest predict call, or NoResult
    recommendations,  \* return value of the latest generate_recommendations call, or NoResult
    uploaded_file,    \* app: the text of the uploaded PDF, Unreadable, or None
    session_state     \* app: st.session_state, a record of the keys it holds

vars == <<label_map, id_to_label, ml_weight, rule_weight, pc, resume_text,
          ml_pred_id, ml_probs, features, rule_probs, result, recommendations,
          uploaded_file, session_state>>

config == <<label_map, id_to_label, ml_weight, rule_weight>>

\* The state of the Streamlit page
app == <<uploaded_file, session_state>>

-----------------------------------------------------------------------------
(* Bounds of the model *)

\* ML probabilities are drawn from the grid 0, 1/ProbDen, ..., 1.
ProbDen == 3

\* Fusion inputs (arbitrary vectors) are drawn from the grid 0, 1/FuseDen, ..., 1.
FuseDen == 2

\* CGPA values of feature records are drawn from the grid 0, 1/CgpaDen, ..., 10.
CgpaDen == 2

\* A resume text is made of at most MaxPhrases phrases of the lexicon.
MaxPhrases == 2

\* Feature records handed to the decision step list at most MaxSkills skills.
MaxSkills == 11

-----------------------------------------------------------------------------
(* Exact rationals standing for Python floats *)

\* Python's None where a float or a list may stand, and the value of a variable
\* that holds no return value yet.
None == <<>>
NoResult == <<>>

Abs(x) == IF x < 0 THEN -x ELSE x

RECURSIVE GCD(_, _)
GCD(a, b) == IF b = 0 THEN a ELSE GCD(b, a % b)

\* The rational n/d (d # 0) in lowest terms with a positive denominator.
Rat(n, d) ==
    LET g == GCD(Abs(n), Abs(d))
        s == IF d < 0 THEN -1 ELSE 1
    IN  <<(s * n) \div g, (s * d) \div g>>

Zero == Rat(0, 1)
One == Rat(1, 1)
RAdd(a, b) == Rat(a[1] * b[2] + b[1] * a[2], a[2] * b[2])
RMul(a, b) == Rat(a[1] * b[1], a[2] * b[2])
RDiv(a, b) == Rat(a[1] * b[2], a[2] * b[1])
RLe(a, b) == a[1] * b[2] <= b[1] * a[2]
RLt(a, b) == a[1] * b[2] < b[1] * a[2]
RGe(a, b) == RLe(b, a)
RGt(a, b) == RLt(b, a)

RECURSIVE RSum(_, _)
\* sum(d.values()) over the keys listed in the sequence keys
RSum(d, keys) ==
    IF keys = <<>> THEN Zero ELSE RAdd(d[Head(keys)], RSum(d, Tail(keys)))

Range(s) == {s[i] : i \in DOMAIN s}

\* A dict as the comprehension or loop that builds it leaves it: the table of its
\* items, every value computed once.
Dict(f) == f @@ <<>>

\* dict.get(k, default)
Get(d, k, default) == IF k \in DOMAIN d THEN d[k] ELSE default

RECURSIVE ArgMaxFrom(_, _, _)
ArgMaxFrom(d, keys, best) ==
    IF keys = <<>> THEN best
    ELSE ArgMaxFrom(d, Tail(keys),
                    IF RGt(d[Head(keys)], d[best]) THEN Head(keys) ELSE best)

RECURSIVE ArgMaxLastFrom(_, _, _)
ArgMaxLastFrom(d, keys, best) ==
    IF keys = <<>> THEN best
    ELSE ArgMaxLastFrom(d, Tail(keys),
                        IF RGe(d[Head(keys)], d[best]) THEN Head(keys) ELSE best)

\* A maximum that keeps the last of several keys of highest value.
ArgMaxLast(d, keys) == ArgMaxLastFrom(d, Tail(keys), Head(keys))

\* max(d, key=d.get) for a dict iterated in the order keys: the first key, in
\* iteration order, whose value no other key's value exceeds.
ArgMax(d, keys) == ArgMaxFrom(d, Tail(keys), Head(keys))

-----------------------------------------------------------------------------
(* The four categories *)

PJ == "Private Job"
HS == "Higher Studies"
RF == "Research Field"
SI == "Skill Improvement"

\* Key order of the scores dict literal of rule_based_score.
ScoreKeys == <<PJ, HS, RF, SI>>
Categories == Range(ScoreKeys)

\* The label mapping written by preprocess_dataset and saved with the model.
StockLabelMap == << <<PJ, 0>>, <<HS, 1>>, <<RF, 2>>, <<SI, 3>> >>

\* label_map.keys() in iteration order
LabelKeys(lm) == [i \in DOMAIN lm |-> lm[i][1]]

\* {v: k for k, v in self.label_map.items()}: a later key overwrites an earlier
\* one with the same id.
InvertLabelMap(lm) ==
    [v \in {lm[i][2] : i \in DOMAIN lm} |->
        lm[CHOOSE i \in DOMAIN lm :
              /\ lm[i][2] = v
              /\ \A j \in DOMAIN lm : lm[j][2] = v => j <= i][1]]

-----------------------------------------------------------------------------
(* rule_based_score *)

Num(k) == Rat(k, 1)
Tenths(k) == Rat(k, 10)

\* A reading of the CGPA under which an absent value earns and costs nothing: it is
\* taken as 7.0, the lowest value outside every CGPA band of Skill Improvement.
CgpaAbsentNeutral(f) == IF f.cgpa = None THEN Num(7) ELSE f.cgpa

\* features["cgpa"] or 0: None and 0.0 are both falsy
CgpaOrZero(f) == IF f.cgpa = None \/ f.cgpa = Zero THEN Zero ELSE f.cgpa

SkillsCount(f) == Len(f.skills)

\* A scorer that rewards the absence of projects instead of their presence.
PrivateJobScoreProjectsNegated(f) ==
    LET cgpa == CgpaOrZero(f)
        skills_count == SkillsCount(f)
    IN  (IF f.has_internship THEN 35 ELSE 0)
        + (IF skills_count >= 10 THEN 30 ELSE IF skills_count >= 8 THEN 20 ELSE 0)
        + (IF RGe(cgpa, Tenths(75)) THEN 20 ELSE 0)
        + (IF ~f.has_projects THEN 15 ELSE 0)

PrivateJobScore(f) ==
    LET cgpa == CgpaOrZero(f)
        skills_count == SkillsCount(f)
    IN  (IF f.has_internship THEN 35 ELSE 0)
        + (IF skills_count >= 10 THEN 30 ELSE IF skills_count >= 8 THEN 20 ELSE 0)
        + (IF RGe(cgpa, Tenths(75)) THEN 20 ELSE 0)
        + (IF f.has_projects THEN 15 ELSE 0)

\* A scorer whose CGPA bands are not ordered: 8.5 <= cgpa < 9.0 earns less than 8.0.
HigherStudiesScoreBandsSwapped(f) ==
    LET cgpa == CgpaOrZero(f)
        skills_count == SkillsCount(f)
    IN  (IF RGe(cgpa, Tenths(90)) THEN 50
         ELSE IF RGe(cgpa, Tenths(85)) THEN 20
         ELSE IF RGe(cgpa, Tenths(80)) THEN 25 ELSE 0)
        + (IF f.has_projects THEN 15 ELSE 0)
        + (IF skills_count >= 6 THEN 10 ELSE 0)
        + (IF f.has_internship THEN -5 ELSE 0)

HigherStudiesScore(f) ==
    LET cgpa == CgpaOrZero(f)
        skills_count == SkillsCount(f)
    IN  (IF RGe(cgpa, Tenths(90)) THEN 50
         ELSE IF RGe(cgpa, Tenths(85)) THEN 40
         ELSE IF RGe(cgpa, Tenths(80)) THEN 25 ELSE 0)
        + (IF f.has_projects THEN 15 ELSE 0)
        + (IF skills_count >= 6 THEN 10 ELSE 0)
        + (IF f.has_internship THEN -5 ELSE 0)

ResearchFieldScore(f) ==
    LET cgpa == CgpaOrZero(f)
    IN  (IF f.has_research THEN 50 ELSE 0)
        + (IF RGe(cgpa, Tenths(90)) THEN 35
           ELSE IF RGe(cgpa, Tenths(85)) THEN 25 ELSE 0)
        + (IF f.has_projects THEN 10 ELSE 0)

\* A scorer that gives nothing for a missing internship.
SkillImprovementScoreInternshipIgnored(f) ==
    LET cgpa == CgpaOrZero(f)
        skills_count == SkillsCount(f)
    IN  (IF skills_count < 4 THEN 40 ELSE IF skills_count < 6 THEN 20 ELSE 0)
        + (IF RLt(cgpa, Tenths(60)) THEN 35
           ELSE IF RLt(cgpa, Tenths(70)) THEN 20 ELSE 0)
        + (IF ~f.has_projects THEN 15 ELSE 0)

\* A scorer whose second CGPA band tests cgpa >= 7.0 where the code tests cgpa < 7.0.
SkillImprovementScoreBandFlipped(f) ==
    LET cgpa == CgpaOrZero(f)
        skills_count == SkillsCount(f)
    IN  (IF skills_count < 4 THEN 40 ELSE IF skills_count < 6 THEN 20 ELSE 0)
        + (IF RLt(cgpa, Tenths(60)) THEN 35
           ELSE IF RGe(cgpa, Tenths(70)) THEN 20 ELSE 0)
        + (IF ~f.has_internship THEN 15 ELSE 0)
        + (IF ~f.has_projects THEN 15 ELSE 0)

SkillImprovementScore(f) ==
    LET cgpa == CgpaOrZero(f)
        skills_count == SkillsCount(f)
    IN  (IF skills_count < 4 THEN 40 ELSE IF skills_count < 6 THEN 20 ELSE 0)
        + (IF RLt(cgpa, Tenths(60)) THEN 35
           ELSE IF RLt(cgpa, Tenths(70)) THEN 20 ELSE 0)
        + (IF ~f.has_internship THEN 15 ELSE 0)
        + (IF ~f.has_projects THEN 15 ELSE 0)

\* The point totals accumulated by the four scoring blocks.
RawScores(f) ==
    Dict([k \in Categories |->
            CASE k = PJ -> PrivateJobScore(f)
              [] k = HS -> HigherStudiesScore(f)
              [] k = RF -> ResearchFieldScore(f)
              [] k = SI -> SkillImprovementScore(f)])

\* A clamp that was left out.
ClampScoresMissing(scores) == scores

\* scores = {k: max(0, v) for k, v in scores.items()}
ClampScores(scores) ==
    Dict([k \in DOMAIN scores |-> IF scores[k] < 0 THEN 0 ELSE scores[k]])

MaxOf(S) == CHOOSE m \in S : \A x \in S : x <= m

\* A normalization that divides by the total of the scores instead of their maximum.
NormalizeScoresBySum(scores) ==
    LET total == scores[PJ] + scores[HS] + scores[RF] + scores[SI]
    IN  IF total > 0
        THEN Dict([k \in DOMAIN scores |-> Rat(scores[k], total)])
        ELSE Dict([k \in DOMAIN scores |-> Rat(25, 100)])

\* Normalize to 0-1: divide by the maximum, or 0.25 each when the maximum is 0.
NormalizeScores(scores) ==
    LET max_score == MaxOf({scores[k] : k \in DOMAIN scores})
    IN  IF max_score > 0
        THEN Dict([k \in DOMAIN scores |-> Rat(scores[k], max_score)])
        ELSE Dict([k \in DOMAIN scores |-> Rat(25, 100)])

ClampedScores(f) == ClampScores(RawScores(f))

rule_based_score(f) == NormalizeScores(ClampedScores(f))

-----------------------------------------------------------------------------
(* extract_features: text is a string, searched as the code searches it *)

Char(s, i) == SubSeq(s, i, i)

UpperLetters == "ABCDEFGHIJKLMNOPQRSTUVWXYZ"
LowerLetters == "abcdefghijklmnopqrstuvwxyz"
DigitChars == "0123456789"
Digits == {Char(DigitChars, i) : i \in 1..Len(DigitChars)}
\* the characters of the class [:\s] that the lexicon can produce
Separators == {":", " ", "\t", "\n", "\r", "\f"}

\* the lowercase form of each uppercase letter
LowerOf ==
    [c \in {Char(UpperLetters, i) : i \in 1..Len(UpperLetters)} |->
        Char(LowerLetters, CHOOSE i \in 1..Len(UpperLetters) : Char(UpperLetters, i) = c)]

LowerChar(c) == IF c \in DOMAIN LowerOf THEN LowerOf[c] ELSE c

RECURSIVE ToLower(_)
\* str.lower()
ToLower(s) ==
    IF Len(s) = 0 THEN s
    ELSE ToLower(SubSeq(s, 1, Len(s) - 1)) \o LowerChar(Char(s, Len(s)))

\* sub in text
Contains(sub, text) ==
    \E i \in 0..(Len(text) - Len(sub)) : SubSeq(text, i + 1, i + Len(sub)) = sub

\* The first index j >= i at which s has no character of the set S (Len(s) + 1
\* when the run reaches the end): where a greedy S* started at i stops.
RunEnd(s, i, S) ==
    CHOOSE j \in i..(Len(s) + 1) :
        /\ \A k \in i..(j - 1) : Char(s, k) \in S
        /\ j = Len(s) + 1 \/ Char(s, j) \notin S

DigitVal(c) == (CHOOSE i \in 1..Len(DigitChars) : Char(DigitChars, i) = c) - 1

RECURSIVE DecValue(_)
\* int() of a string of decimal digits, 0 for the empty string
DecValue(ds) ==
    IF Len(ds) = 0 THEN 0
    ELSE 10 * DecValue(SubSeq(ds, 1, Len(ds) - 1)) + DigitVal(Char(ds, Len(ds)))

RECURSIVE Pow10(_)
Pow10(k) == IF k = 0 THEN 1 ELSE 10 * Pow10(k - 1)

\* float() of a match of \d+\.?\d* that starts at index b of s
FloatAt(s, b) ==
    LET c == RunEnd(s, b, Digits)
        d == IF c <= Len(s) /\ Char(s, c) = "." THEN c + 1 ELSE c
        e == RunEnd(s, d, Digits)
        whole == SubSeq(s, b, c - 1)
        frac == SubSeq(s, d, e - 1)
    IN  Rat(DecValue(whole) * Pow10(Len(frac)) + DecValue(frac), Pow10(Len(frac)))

\* Index of the first digit of the number when word[:\s]*(\d+\.?\d*) matches
\* s (lowercased, as re.IGNORECASE compares) from index i on, else 0.
NumberStart(s, word, i) ==
    IF i + Len(word) - 1 <= Len(s) /\ SubSeq(s, i, i + Len(word) - 1) = word
    THEN LET b == RunEnd(s, i + Len(word), Separators)
         IN  IF b <= Len(s) /\ Char(s, b) \in Digits THEN b ELSE 0
    ELSE 0

\* re.search(pattern, text, re.IGNORECASE): the leftmost match, as the index of
\* the first digit of group 1, or 0 when nothing matches.
SearchNumber(text, word) ==
    LET s == ToLower(text)
        hits == {i \in 1..Len(s) : NumberStart(s, word, i) # 0}
    IN  IF hits = {} THEN 0
        ELSE NumberStart(s, word, CHOOSE i \in hits : \A j \in hits : i <= j)

\* A pattern list that tries GPA before CGPA.
CgpaWordsGpaFirst == <<"gpa", "cgpa">>

\* The words of the two patterns, in the order the loop tries them.
CgpaWords == <<"cgpa", "gpa">>

RECURSIVE ExtractCgpaFrom(_, _)
ExtractCgpaFrom(text, words) ==
    IF words = <<>> THEN None
    ELSE LET b == SearchNumber(text, Head(words))
         IN  IF b # 0
             THEN LET cgpa == FloatAt(text, b)
                  IN  IF RLe(cgpa, Num(10)) THEN cgpa ELSE RDiv(cgpa, Num(10))
             ELSE ExtractCgpaFrom(text, Tail(words))

\* An extraction that answers 0.0 where no pattern matches.
ExtractCgpaZeroDefault(text) ==
    LET cgpa == ExtractCgpaFrom(text, CgpaWords)
    IN  IF cgpa = None THEN Zero ELSE cgpa

_extract_cgpa(text) == ExtractCgpaFrom(text, CgpaWords)

skills_db ==
    <<"Python", "Java", "JavaScript", "C++", "C", "React", "Node.js", "Angular",
      "Vue", "Machine Learning", "Deep Learning", "TensorFlow", "PyTorch", "Keras",
      "MongoDB", "MySQL", "PostgreSQL", "Redis", "AWS", "Azure", "Docker",
      "Kubernetes", "Git">>

\* An extraction that looks for the lowercase entries in the text as written.
ExtractSkillsCaseSensitive(text) ==
    LET Match(sk) == Contains(ToLower(sk), text)
    IN  SelectSeq(skills_db, Match)

_extract_skills(text) ==
    LET text_lower == ToLower(text)
        Match(sk) == Contains(ToLower(sk), text_lower)
    IN  SelectSeq(skills_db, Match)

_has_keyword(text, keywords) ==
    LET text_lower == ToLower(text)
    IN  \E i \in DOMAIN keywords : Contains(keywords[i], text_lower)

extract_features(text) ==
    [cgpa |-> _extract_cgpa(text),
     skills |-> _extract_skills(text),
     has_internship |-> _has_keyword(text, <<"intern", "internship">>),
     has_projects |-> _has_keyword(text, <<"project">>),
     has_research |-> _has_keyword(text, <<"research", "publication", "paper">>),
     has_certifications |->
         _has_keyword(text, <<"certified", "certificate", "certification">>)]

-----------------------------------------------------------------------------
(* predict *)

KeyError == [error |-> "KeyError"]
IsError(r) == r # NoResult /\ "error" \in DOMAIN r
IsResult(r) == r # NoResult /\ "category" \in DOMAIN r

\* {self.id_to_label[i]: prob for i, prob in enumerate(ml_probs)}
MlProbsDict(i2l, probs) ==
    Dict([k \in {i2l[i - 1] : i \in DOMAIN probs} |->
            probs[CHOOSE i \in DOMAIN probs :
                     /\ i2l[i - 1] = k
                     /\ \A j \in DOMAIN probs : i2l[j - 1] = k => j <= i]])

\* A fusion that weighs the rule scores with the ML weight's complement taken twice:
\* the rule term is dropped.
CombinedRuleDropped(keys, wml, wr, ml_dict, rule) ==
    [k \in Range(keys) |-> RMul(wml, Get(ml_dict, k, Zero))]

\* A fusion that subtracts the weighted rule score from the weighted ML value.
CombinedRuleSubtracted(keys, wml, wr, ml_dict, rule) ==
    Dict([k \in Range(keys) |->
            RAdd(RMul(wml, Get(ml_dict, k, Zero)),
                 RMul(RMul(Num(-1), wr), Get(rule, k, Zero)))])

\* ensemble_probs[category] = ml_weight * ml.get(category, 0) + rule_weight * rule.get(category, 0)
Combined(keys, wml, wr, ml_dict, rule) ==
    Dict([k \in Range(keys) |->
            RAdd(RMul(wml, Get(ml_dict, k, Zero)), RMul(wr, Get(rule, k, Zero)))])

\* A normalization that divides by the largest value instead of the total.
NormalizeByMax(probs, keys) ==
    LET top == probs[ArgMax(probs, keys)]
    IN  IF RGt(top, Zero) THEN [k \in DOMAIN probs |-> RDiv(probs[k], top)] ELSE probs

\* total = sum(values); if total > 0: divide every value by total
Normalize(probs, keys) ==
    LET total == RSum(probs, keys)
    IN  IF RGt(total, Zero)
        THEN Dict([k \in DOMAIN probs |-> RDiv(probs[k], total)])
        ELSE probs

\* The ensemble step of predict: combine, normalize, take the maximum.
Ensemble(keys, wml, wr, ml_dict, rule) ==
    LET ensemble_probs == Normalize(Combined(keys, wml, wr, ml_dict, rule), keys)
        final_category == ArgMax(ensemble_probs, keys)
    IN  [category |-> final_category,
         confidence |-> ensemble_probs[final_category],
         probabilities |-> ensemble_probs]

\* A predict that reports the fused winner as the prediction of both sources.
PredictFromFeaturesReportingFused(lm, i2l, wml, wr, feats, pred_id, probs) ==
    IF pred_id \notin DOMAIN i2l \/ \E i \in DOMAIN probs : (i - 1) \notin DOMAIN i2l
    THEN KeyError
    ELSE LET ml_probs_dict == MlProbsDict(i2l, probs)
             rule == rule_based_score(feats)
             fused == Ensemble(LabelKeys(lm), wml, wr, ml_probs_dict, rule)
         IN  [category |-> fused.category,
              confidence |-> fused.confidence,
              probabilities |-> fused.probabilities,
              features |-> feats,
              ml_prediction |-> fused.category,
              rule_prediction |-> fused.category,
              ml_probabilities |-> ml_probs_dict,
              rule_probabilities |-> rule]

\* What predict does once the features feats are extracted, the classifier
\* answering pred_id and probs: the value it returns or the error it raises.
PredictFromFeatures(lm, i2l, wml, wr, feats, pred_id, probs) ==
    IF pred_id \notin DOMAIN i2l \/ \E i \in DOMAIN probs : (i - 1) \notin DOMAIN i2l
    THEN KeyError
    ELSE LET ml_probs_dict == MlProbsDict(i2l, probs)
             rule == rule_based_score(feats)
             fused == Ensemble(LabelKeys(lm), wml, wr, ml_probs_dict, rule)
         IN  [category |-> fused.category,
              confidence |-> fused.confidence,
              probabilities |-> fused.probabilities,
              features |-> feats,
              ml_prediction |-> i2l[pred_id],
              rule_prediction |-> ArgMax(rule, ScoreKeys),
              ml_probabilities |-> ml_probs_dict,
              rule_probabilities |-> rule]

\* The value predict returns for resume_text when the classifier answers
\* pred_id and probs, or the error it raises.
PredictResult(lm, i2l, wml, wr, text, pred_id, probs) ==
    PredictFromFeatures(lm, i2l, wml, wr, extract_features(text), pred_id, probs)

-----------------------------------------------------------------------------
(* generate_recommendations *)

Opt(cond, text) == IF cond THEN <<text>> ELSE <<>>

\* bool(features["cgpa"] and features["cgpa"] < 7.0): None and 0.0 are falsy
CgpaBelowSeven(f) == f.cgpa # None /\ f.cgpa # Zero /\ RLt(f.cgpa, Num(7))

\* Recommendations chosen by the ML component's own prediction instead of the
\* winning category.
GenerateRecommendationsByMlPrediction(res) ==
    LET category == res.ml_prediction
        f == res.features
    IN  IF category = PJ
        THEN Opt(Len(f.skills) < 10, "Learn 2-3 more in-demand technologies")
             \o Opt(~f.has_certifications, "Get industry certifications (AWS, Azure, etc.)")
             \o <<"Practice DSA on LeetCode/HackerRank", "Build strong GitHub portfolio">>
        ELSE IF category = HS
        THEN <<"Prepare for GRE/GATE exams", "Research universities and programs",
               "Request letters of recommendation", "Write compelling Statement of Purpose">>
        ELSE IF category = RF
        THEN <<"Publish papers in conferences/journals",
               "Connect with professors in your field",
               "Apply for research internships", "Consider PhD programs">>
        ELSE Opt(Len(f.skills) < 5, "Learn core programming: Python, Java, or JavaScript")
             \o Opt(~f.has_projects, "Build 3-4 substantial projects")
             \o <<"Take online courses (Coursera, Udemy)", "Participate in hackathons">>
             \o Opt(CgpaBelowSeven(f), "Focus on improving academic performance")

\* Recommendations that suggest certifications for Private Job whatever the
\* features say.
GenerateRecommendationsCertsAlways(res) ==
    LET category == res.category
        f == res.features
    IN  IF category = PJ
        THEN Opt(Len(f.skills) < 10, "Learn 2-3 more in-demand technologies")
             \o <<"Get industry certifications (AWS, Azure, etc.)",
                  "Practice DSA on LeetCode/HackerRank", "Build strong GitHub portfolio">>
        ELSE IF category = HS
        THEN <<"Prepare for GRE/GATE exams", "Research universities and programs",
               "Request letters of recommendation", "Write compelling Statement of Purpose">>
        ELSE IF category = RF
        THEN <<"Publish papers in conferences/journals",
               "Connect with professors in your field",
               "Apply for research internships", "Consider PhD programs">>
        ELSE Opt(Len(f.skills) < 5, "Learn core programming: Python, Java, or JavaScript")
             \o Opt(~f.has_projects, "Build 3-4 substantial projects")
             \o <<"Take online courses (Coursera, Udemy)", "Participate in hackathons">>
             \o Opt(CgpaBelowSeven(f), "Focus on improving academic performance")

generate_recommendations(res) ==
    LET category == res.category
        f == res.features
    IN  IF category = PJ
        THEN Opt(Len(f.skills) < 10, "Learn 2-3 more in-demand technologies")
             \o Opt(~f.has_certifications, "Get industry certifications (AWS, Azure, etc.)")
             \o <<"Practice DSA on LeetCode/HackerRank", "Build strong GitHub portfolio">>
        ELSE IF category = HS
        THEN <<"Prepare for GRE/GATE exams", "Research universities and programs",
               "Request letters of recommendation", "Write compelling Statement of Purpose">>
        ELSE IF category = RF
        THEN <<"Publish papers in conferences/journals",
               "Connect with professors in your field",
               "Apply for research internships", "Consider PhD programs">>
        ELSE Opt(Len(f.skills) < 5, "Learn core programming: Python, Java, or JavaScript")
             \o Opt(~f.has_projects, "Build 3-4 substantial projects")
             \o <<"Take online courses (Coursera, Udemy)", "Participate in hackathons">>
             \o Opt(CgpaBelowSeven(f), "Focus on improving academic performance")

-----------------------------------------------------------------------------
(* Inputs *)

Grid(den) == {Rat(k, den) : k \in 0..den}

\* Probability vectors over the four classes with entries on the grid that sum to 1,
\* as a classifier's predict_proba returns them.
Distributions(den) ==
    {p \in [1..4 -> Grid(den)] : RAdd(RAdd(p[1], p[2]), RAdd(p[3], p[4])) = One}

\* The ids classifier.predict may answer for the probabilities p: a class of
\* highest probability.
TopIds(p) == {i - 1 : i \in {j \in DOMAIN p : \A k \in DOMAIN p : RLe(p[k], p[j])}}

\* Phrases resume texts are made of.
Lexicon ==
    {"CGPA: 9.2", "gpa 6.5", "Percentage GPA: 85", "Python React Docker",
     "internship", "project", "research paper", "hello"}

RECURSIVE Join(_)
Join(ps) == IF Len(ps) = 0 THEN ""
            ELSE IF Len(ps) = 1 THEN ps[1]
            ELSE ps[1] \o " " \o Join(Tail(ps))

Texts(n) == {Join(ps) : ps \in UNION {[1..m -> Lexicon] : m \in 0..n}}

CgpaValues == {None} \cup {Rat(k, CgpaDen) : k \in 0..(10 * CgpaDen)}

FeatureRecords ==
    [cgpa : CgpaValues,
     skills : {SubSeq(skills_db, 1, n) : n \in 0..Len(skills_db)},
     has_internship : BOOLEAN, has_projects : BOOLEAN,
     has_research : BOOLEAN, has_certifications : BOOLEAN]

\* The literal vectors of the fusion scenario (0.1, 0.5, 0.3, 0.1 and 0.0, 0.2, 1.0, 0.0).
ScenarioMl == <<Tenths(1), Tenths(5), Tenths(3), Tenths(1)>>
ScenarioRule == (PJ :> Zero) @@ (HS :> Tenths(2)) @@ (RF :> One) @@ (SI :> Zero)

\* Classifier outputs handed to the fusion: vectors of three or four entries.
FuseMlVectors == UNION {[1..n -> Grid(FuseDen)] : n \in {3, 4}} \cup {ScenarioMl}
FuseRuleDists == [Categories -> Grid(FuseDen)] \cup {ScenarioRule}
\* Weight pairs: the ones __init__ assigns, and a pair that does not sum to 1.
FuseWeights == {<<Tenths(5), Tenths(5)>>, <<Tenths(7), Tenths(5)>>}

-----------------------------------------------------------------------------
(* ResumeAnalyzer.__init__ and the calls on the analyzer *)

\* A page on which nothing is uploaded and nothing stored.
NoSession ==
    /\ uploaded_file = None
    /\ session_state = <<>>

\* The analyzer as __init__ leaves it, with nothing called yet.
Constructed ==
    /\ label_map = StockLabelMap
    /\ id_to_label = InvertLabelMap(StockLabelMap)
    /\ ml_weight = Tenths(5)
    /\ rule_weight = Tenths(5)
    /\ result = NoResult
    /\ recommendations = NoResult

Init ==
    /\ NoSession
    /\ Constructed
    /\ pc = "ready"
    /\ resume_text = None
    /\ ml_pred_id = None
    /\ ml_probs = None
    /\ features = None
    /\ rule_probs = None

\* A predict that keeps the confidence of its result as the next call's ML weight.
PredictAdaptingWeight(text, pred_id, probs) ==
    /\ resume_text' = text
    /\ ml_pred_id' = pred_id
    /\ ml_probs' = probs
    /\ result' = PredictResult(label_map, id_to_label, ml_weight, rule_weight,
                               text, pred_id, probs)
    /\ ml_weight' = IF IsResult(result') THEN result'.confidence ELSE ml_weight
    /\ pc' = "predicted"
    /\ UNCHANGED <<label_map, id_to_label, rule_weight, app, features, rule_probs,
                   recommendations>>

\* analyzer.predict(text), the classifier answering pred_id and probs
Predict(text, pred_id, probs) ==
    /\ resume_text' = text
    /\ ml_pred_id' = pred_id
    /\ ml_probs' = probs
    /\ result' = PredictResult(label_map, id_to_label, ml_weight, rule_weight,
                               text, pred_id, probs)
    /\ pc' = "predicted"
    /\ UNCHANGED <<config, app, features, rule_probs, recommendations>>

\* analyzer.generate_recommendations(result) on the latest result
GenerateRecommendations ==
    /\ IsResult(result)
    /\ recommendations' = generate_recommendations(result)
    /\ pc' = "recommended"
    /\ UNCHANGED <<config, app, resume_text, ml_pred_id, ml_probs, features, rule_probs, result>>

\* A session: any sequence of predict and generate_recommendations calls.
Next ==
    \/ \E text \in Texts(1), probs \in Distributions(1) :
          \E pred_id \in TopIds(probs) : Predict(text, pred_id, probs)
    \/ GenerateRecommendations

Spec == Init /\ [][Next]_vars

-----------------------------------------------------------------------------
(* One request: predict on a drawn text and classifier answer, then the
   recommendations for its result *)

InitCall ==
    /\ NoSession
    /\ Constructed
    /\ pc = "start"
    /\ resume_text \in Texts(MaxPhrases)
    /\ ml_probs \in Distributions(ProbDen)
    /\ ml_pred_id \in TopIds(ml_probs)
    /\ features = None
    /\ rule_probs = None

NextCall ==
    \/ pc = "start" /\ Predict(resume_text, ml_pred_id, ml_probs)
    \/ pc = "predicted" /\ GenerateRecommendations

SpecCall == InitCall /\ [][NextCall]_vars

-----------------------------------------------------------------------------
(* rule_based_score applied to a drawn feature record *)

InitScore ==
    /\ NoSession
    /\ Constructed
    /\ pc = "start"
    /\ features \in FeatureRecords
    /\ rule_probs = None
    /\ resume_text = None
    /\ ml_pred_id = None
    /\ ml_probs = None

Score ==
    /\ pc = "start"
    /\ rule_probs' = rule_based_score(features)
    /\ pc' = "scored"
    /\ UNCHANGED <<config, app, resume_text, ml_pred_id, ml_probs, features, result,
                   recommendations>>

SpecScore == InitScore /\ [][Score]_vars

-----------------------------------------------------------------------------
(* The ensemble step of predict applied to drawn distributions and weights *)

InitFuse ==
    /\ NoSession
    /\ label_map = StockLabelMap
    /\ id_to_label = InvertLabelMap(StockLabelMap)
    /\ \E w \in FuseWeights : ml_weight = w[1] /\ rule_weight = w[2]
    /\ ml_probs \in FuseMlVectors
    /\ rule_probs \in FuseRuleDists
    /\ pc = "start"
    /\ result = NoResult
    /\ recommendations = NoResult
    /\ resume_text = None
    /\ ml_pred_id = None
    /\ features = None

Fuse ==
    /\ pc = "start"
    /\ result' = Ensemble(LabelKeys(label_map), ml_weight, rule_weight,
                          MlProbsDict(id_to_label, ml_probs), rule_probs)
    /\ pc' = "fused"
    /\ UNCHANGED <<config, app, resume_text, ml_pred_id, ml_probs, features, rule_probs,
                   recommendations>>

SpecFuse == InitFuse /\ [][Fuse]_vars

-----------------------------------------------------------------------------
(* predict with a classifier that may fail: encode or predict raises, or
   predict_proba answers a vector that has not one entry per category *)

\* The exception a failing embedder or classifier raises inside predict.
ClassifierError == [error |-> "ClassifierError"]

\* Classifier vectors of three, four or five entries (entries 0 or 1).
ClassifierVectors == UNION {[1..n -> Grid(1)] : n \in {3, 4, 5}}

InitClassifier ==
    /\ NoSession
    /\ Constructed
    /\ pc = "start"
    /\ resume_text \in Texts(1)
    /\ ml_probs \in ClassifierVectors
    /\ ml_pred_id \in TopIds(ml_probs)
    /\ features = None
    /\ rule_probs = None

\* analyzer.predict(text) when encode, predict or predict_proba raises: the
\* exception leaves predict before anything is computed from the rule scores.
PredictClassifierRaises(text) ==
    /\ resume_text' = text
    /\ ml_pred_id' = None
    /\ ml_probs' = None
    /\ result' = ClassifierError
    /\ pc' = "raised"
    /\ UNCHANGED <<config, app, features, rule_probs, recommendations>>

NextClassifier ==
    \/ pc = "start" /\ Predict(resume_text, ml_pred_id, ml_probs)
    \/ pc = "start" /\ PredictClassifierRaises(resume_text)
    \/ pc = "predicted" /\ GenerateRecommendations

SpecClassifier == InitClassifier /\ [][NextClassifier]_vars

-----------------------------------------------------------------------------
(* extract_features applied to a drawn text *)

\* Phrases the texts handed to extract_features are made of: CGPA mentions with
\* and without a number, numbers above 10 and above 100, skills and keywords in
\* several cases, and phrases that match nothing.
ExtractLexicon ==
    {"CGPA: 9.2", "gpa 6.5", "CGPA:85", "GPA: 150", "GPA: n/a", "cgpa 9.", "101",
     "JAVASCRIPT", "Node.js", "react", "Intern", "Project", "PUBLICATION",
     "certified", "hello"}

ExtractTexts(n) == {Join(ps) : ps \in UNION {[1..m -> ExtractLexicon] : m \in 0..n}}

InitExtract ==
    /\ NoSession
    /\ Constructed
    /\ pc = "start"
    /\ resume_text \in ExtractTexts(MaxPhrases)
    /\ features = None
    /\ rule_probs = None
    /\ ml_pred_id = None
    /\ ml_probs = None

\* analyzer.extract_features(text)
Extract ==
    /\ pc = "start"
    /\ features' = extract_features(resume_text)
    /\ pc' = "extracted"
    /\ UNCHANGED <<config, app, resume_text, ml_pred_id, ml_probs, rule_probs, result,
                   recommendations>>

SpecExtract == InitExtract /\ [][Extract]_vars

-----------------------------------------------------------------------------
(* The decision of predict on a drawn feature record and classifier answer,
   then the recommendations for its result *)

\* Feature records with up to MaxSkills skills
DecisionFeatures == {f \in FeatureRecords : Len(f.skills) <= MaxSkills}

InitRecommend ==
    /\ NoSession
    /\ Constructed
    /\ pc = "start"
    /\ features \in DecisionFeatures
    /\ ml_probs \in Distributions(1)
    /\ ml_pred_id \in TopIds(ml_probs)
    /\ resume_text = None
    /\ rule_probs = None

\* predict from the point where the features are extracted
Decide ==
    /\ pc = "start"
    /\ result' = PredictFromFeatures(label_map, id_to_label, ml_weight, rule_weight,
                                     features, ml_pred_id, ml_probs)
    /\ pc' = "predicted"
    /\ UNCHANGED <<config, app, resume_text, ml_pred_id, ml_probs, features, rule_probs,
                   recommendations>>

NextRecommend ==
    \/ Decide
    \/ pc = "predicted" /\ GenerateRecommendations

SpecRecommend == InitRecommend /\ [][NextRecommend]_vars

-----------------------------------------------------------------------------
(* The Streamlit page: uploads and Analyze clicks, each a rerun of the script *)

\* An upload PyPDF2 cannot read: PdfReader or extract_text raises.
Unreadable == [error |-> "PdfError"]

\* The files a user may upload, by the text PyPDF2 extracts from them
Uploads == {[text |-> t] : t \in Texts(1)} \cup {Unreadable}

\* A classifier vector with an entry too many: the id_to_label lookup raises.
LongVector == [i \in 1..5 |-> IF i = 5 THEN One ELSE Zero]

\* What the classifier may answer on the page
PageClassifierVectors == Distributions(1) \cup {LongVector}

\* The Analyze button is rendered: a file is uploaded and its text was read.
CanAnalyze == uploaded_file # None /\ "text" \in DOMAIN uploaded_file

\* The user uploads a file: the script reruns, reads the text (or reports the
\* error) and no button is clicked.
Upload(file) ==
    /\ uploaded_file' = file
    /\ pc' = "idle"
    /\ UNCHANGED <<config, resume_text, ml_pred_id, ml_probs, features, rule_probs,
                   result, recommendations, session_state>>

\* The user removes the uploaded file.
ClearUpload ==
    /\ uploaded_file # None
    /\ uploaded_file' = None
    /\ pc' = "idle"
    /\ UNCHANGED <<config, resume_text, ml_pred_id, ml_probs, features, rule_probs,
                   result, recommendations, session_state>>

\* An Analyze handler that stores the new result and leaves the recommendations
\* of an earlier analysis in place.
AnalyzeKeepingRecommendations(pred_id, probs) ==
    /\ CanAnalyze
    /\ resume_text' = uploaded_file.text
    /\ ml_pred_id' = pred_id
    /\ ml_probs' = probs
    /\ result' = PredictResult(label_map, id_to_label, ml_weight, rule_weight,
                               uploaded_file.text, pred_id, probs)
    /\ IF IsResult(result')
       THEN /\ recommendations' = generate_recommendations(result')
            /\ session_state' =
                  [result |-> result',
                   recommendations |->
                       IF session_state = <<>> THEN recommendations'
                       ELSE session_state.recommendations]
            /\ pc' = "stored"
       ELSE /\ UNCHANGED <<recommendations, session_state>>
            /\ pc' = "failed"
    /\ UNCHANGED <<config, uploaded_file, features, rule_probs>>

\* The user clicks Analyze and the classifier answers pred_id and probs: predict,
\* then generate_recommendations, then both stores; an exception of predict is
\* caught by the handler's except clause before anything is stored.
Analyze(pred_id, probs) ==
    /\ CanAnalyze
    /\ resume_text' = uploaded_file.text
    /\ ml_pred_id' = pred_id
    /\ ml_probs' = probs
    /\ result' = PredictResult(label_map, id_to_label, ml_weight, rule_weight,
                               uploaded_file.text, pred_id, probs)
    /\ IF IsResult(result')
       THEN /\ recommendations' = generate_recommendations(result')
            /\ session_state' =
                  [result |-> result', recommendations |-> recommendations']
            /\ pc' = "stored"
       ELSE /\ UNCHANGED <<recommendations, session_state>>
            /\ pc' = "failed"
    /\ UNCHANGED <<config, uploaded_file, features, rule_probs>>

\* The user clicks Analyze and the embedder or the classifier raises.
AnalyzeClassifierRaises ==
    /\ CanAnalyze
    /\ resume_text' = uploaded_file.text
    /\ ml_pred_id' = None
    /\ ml_probs' = None
    /\ result' = ClassifierError
    /\ pc' = "failed"
    /\ UNCHANGED <<config, uploaded_file, features, rule_probs, recommendations,
                   session_state>>

NextApp ==
    \/ \E file \in Uploads : Upload(file)
    \/ ClearUpload
    \/ \E probs \in PageClassifierVectors :
          \E pred_id \in TopIds(probs) : Analyze(pred_id, probs)
    \/ AnalyzeClassifierRaises

SpecApp == Init /\ [][NextApp]_vars

-----------------------------------------------------------------------------
(* Properties of rule_based_score, under SpecScore *)

Quarter == Rat(1, 4)

WithCgpa(f, c) == [f EXCEPT !.cgpa = c]

\* CGPA values of the grid between 6.0 and 9.5
CgpaRange == {c \in CgpaValues \ {None} : RGe(c, Num(6)) /\ RLe(c, Tenths(95))}

\* C1: every value rule_based_score returns lies in [0,1], and some category has
\* the value 1.0 unless no category has a positive raw score, in which case all
\* four values are 0.25.
C1_RuleScoresInUnitRange ==
    pc = "scored" =>
        /\ \A k \in Categories : RLe(Zero, rule_probs[k]) /\ RLe(rule_probs[k], One)
        /\ IF \E k \in Categories : RawScores(features)[k] > 0
           THEN \E k \in Categories : rule_probs[k] = One
           ELSE \A k \in Categories : rule_probs[k] = Quarter

\* A record whose Higher Studies total is negative before the clamp has been scored.
C1_Witness ==
    /\ pc = "scored"
    /\ RawScores(features)[HS] < 0
    /\ rule_probs[HS] = Zero
    /\ rule_probs[PJ] = One

\* C4 as stated: with the other features fixed, the Higher Studies score returned
\* for a CGPA c2 in 6.0..9.5 is not lower than the one returned for c1 <= c2.
C4_HigherStudiesScoreMonotone ==
    (pc = "scored" /\ features.cgpa \in CgpaRange) =>
        \A c2 \in CgpaRange :
            RLe(features.cgpa, c2) =>
                RLe(rule_probs[HS], rule_based_score(WithCgpa(features, c2))[HS])

\* C4 amended: with the other features fixed, the Higher Studies point total after
\* the clamp at 0 and before the division by the maximum is, for a CGPA c2 in
\* 6.0..9.5, not lower than for c1 <= c2.
C4_HigherStudiesPointsMonotone ==
    (pc = "scored" /\ features.cgpa \in CgpaRange) =>
        \A c2 \in CgpaRange :
            RLe(features.cgpa, c2) =>
                ClampedScores(features)[HS] <= ClampedScores(WithCgpa(features, c2))[HS]

\* A record at CGPA 7.0 has been scored whose Higher Studies points grow at CGPA
\* 9.0 while its returned Higher Studies score drops at CGPA 7.5.
C4_Witness ==
    /\ pc = "scored"
    /\ features.cgpa = Num(7)
    /\ ClampedScores(features)[HS] < ClampedScores(WithCgpa(features, Num(9)))[HS]
    /\ RLt(rule_based_score(WithCgpa(features, Tenths(75)))[HS], rule_probs[HS])

\* C5: with the other features fixed, the Skill Improvement score returned for a
\* CGPA c2 in 6.0..9.5 is not higher than the one returned for c1 <= c2.
C5_SkillImprovementScoreAntitone ==
    (pc = "scored" /\ features.cgpa \in CgpaRange) =>
        \A c2 \in CgpaRange :
            RLe(features.cgpa, c2) =>
                RLe(rule_based_score(WithCgpa(features, c2))[SI], rule_probs[SI])

\* A record at CGPA 6.5 has been scored whose Skill Improvement score is strictly
\* lower at CGPA 7.5.
C5_Witness ==
    /\ pc = "scored"
    /\ features.cgpa = Tenths(65)
    /\ RLt(rule_based_score(WithCgpa(features, Tenths(75)))[SI], rule_probs[SI])

-----------------------------------------------------------------------------
(* Properties of the ensemble step, under SpecFuse *)

\* The ML probability of the category with id i (position i + 1 of the stock label
\* order), 0 when the classifier's vector has no such entry.
MlOf(k) ==
    LET i == CHOOSE j \in DOMAIN StockLabelMap : StockLabelMap[j][1] = k
    IN  IF i <= Len(ml_probs) THEN ml_probs[i] ELSE Zero

\* w_ml * ml[k] + w_rule * rule[k] for the inputs of the state
Weighted(k) == RAdd(RMul(ml_weight, MlOf(k)), RMul(rule_weight, rule_probs[k]))

WeightedTotal == RAdd(RAdd(Weighted(PJ), Weighted(HS)), RAdd(Weighted(RF), Weighted(SI)))

\* C2: whenever the sum of the weighted combined values is nonzero, every fused
\* probability lies in [0,1] and the fused probabilities sum to 1.
C2_FusedIsDistribution ==
    (pc = "fused" /\ WeightedTotal # Zero) =>
        /\ \A k \in Categories :
              RLe(Zero, result.probabilities[k]) /\ RLe(result.probabilities[k], One)
        /\ RAdd(RAdd(result.probabilities[PJ], result.probabilities[HS]),
                RAdd(result.probabilities[RF], result.probabilities[SI])) = One

\* A fusion whose combined values do not sum to 1 has been normalized.
C2_Witness ==
    /\ pc = "fused"
    /\ RGt(WeightedTotal, One)
    /\ result.probabilities[PJ] # Weighted(PJ)
    /\ RLt(Zero, result.probabilities[PJ])

\* C3: the fused probability of each category c is (w_ml*ml[c] + w_rule*rule[c])
\* divided by the sum of that expression over the four categories (a missing key
\* counting as 0), category is a category of highest fused probability and
\* confidence is its fused probability; at 0.5/0.5 weights the scenario vectors
\* give Research Field with confidence 0.65/1.10.
C3_FusionFormula ==
    pc = "fused" =>
        /\ WeightedTotal # Zero =>
              \A k \in Categories :
                  result.probabilities[k] = RDiv(Weighted(k), WeightedTotal)
        /\ result.category \in Categories
        /\ \A k \in Categories :
              RLe(result.probabilities[k], result.probabilities[result.category])
        /\ result.confidence = result.probabilities[result.category]
        /\ (ml_weight = Tenths(5) /\ rule_weight = Tenths(5)
            /\ ml_probs = ScenarioMl /\ rule_probs = ScenarioRule) =>
              /\ result.category = RF
              /\ result.confidence = Rat(65, 110)
              /\ result.probabilities =
                    (PJ :> Rat(5, 110)) @@ (HS :> Rat(35, 110))
                    @@ (RF :> Rat(65, 110)) @@ (SI :> Rat(5, 110))

\* The scenario vectors have been fused at 0.5/0.5 weights.
C3_Witness ==
    /\ pc = "fused"
    /\ ml_weight = Tenths(5) /\ rule_weight = Tenths(5)
    /\ ml_probs = ScenarioMl /\ rule_probs = ScenarioRule
    /\ Weighted(RF) = Rat(65, 100)
    /\ result.category = RF

\* A classifier vector without an entry for the last category has been fused.
C3_WitnessMissingKey ==
    /\ pc = "fused"
    /\ Len(ml_probs) < Len(StockLabelMap)
    /\ RGt(result.probabilities[SI], Zero)

-----------------------------------------------------------------------------
(* Properties of one request, under SpecCall *)

NoEvidence ==
    [cgpa |-> None, skills |-> <<>>, has_internship |-> FALSE, has_projects |-> FALSE,
     has_research |-> FALSE, has_certifications |-> FALSE]

PredictedEmptyText == IsResult(result) /\ resume_text = ""

\* C6 as stated: for empty resume text rule_based_score returns 0.25 for each of
\* the four categories.
C6_EmptyTextUniform ==
    PredictedEmptyText =>
        /\ result.features = NoEvidence
        /\ \A k \in Categories : result.rule_probabilities[k] = Quarter

\* C6 amended: for empty resume text (cgpa absent, no skills, all four boolean
\* signals false) rule_based_score returns 1.0 for Skill Improvement and 0.0 for
\* each of the other three categories.
C6_EmptyTextSkillImprovement ==
    PredictedEmptyText =>
        /\ result.features = NoEvidence
        /\ result.rule_probabilities =
              (PJ :> Zero) @@ (HS :> Zero) @@ (RF :> Zero) @@ (SI :> One)

\* predict has returned for the empty text.
C6_Witness ==
    /\ pc = "predicted"
    /\ PredictedEmptyText
    /\ result.rule_prediction = SI

\* C7 as stated: for empty resume text the category predict returns is a category
\* to which the ML component assigns the highest probability.
C7_EmptyTextFollowsMl ==
    PredictedEmptyText =>
        \A k \in Categories :
            RLe(result.ml_probabilities[k], result.ml_probabilities[result.category])

\* C7 amended: for empty resume text and every ML probability distribution the
\* category predict returns is Skill Improvement, unless the ML component assigns
\* probability 1 to another category, in which case it is that category.
C7_EmptyTextSkillImprovementUnlessCertain ==
    PredictedEmptyText =>
        IF \E k \in Categories \ {SI} : result.ml_probabilities[k] = One
        THEN result.ml_probabilities[result.category] = One
        ELSE result.category = SI

\* predict has returned Skill Improvement for the empty text although the ML
\* component favours another category.
C7_Witness ==
    /\ PredictedEmptyText
    /\ result.category = SI
    /\ result.ml_prediction # SI
    /\ RLt(result.ml_probabilities[SI], result.ml_probabilities[result.ml_prediction])

\* predict has returned the category the ML component is certain of.
C7_WitnessCertain ==
    /\ PredictedEmptyText
    /\ result.category = PJ
    /\ result.ml_probabilities[PJ] = One

-----------------------------------------------------------------------------
(* Properties of a session of calls, under Spec *)

\* C8: no predict or generate_recommendations call changes ml_weight, rule_weight,
\* label_map or id_to_label, and what a call returns for a text and a classifier
\* answer is what a freshly constructed analyzer returns for them, whatever calls
\* preceded it.
C8_CallsKeepAnalyzerAndAreDeterministic ==
    [][/\ ml_weight' = ml_weight
       /\ rule_weight' = rule_weight
       /\ label_map' = label_map
       /\ id_to_label' = id_to_label
       /\ pc' = "predicted" =>
             result' = PredictResult(StockLabelMap, InvertLabelMap(StockLabelMap),
                                     Tenths(5), Tenths(5),
                                     resume_text', ml_pred_id', ml_probs')
       /\ pc' = "recommended" =>
             /\ result' = result
             /\ recommendations' = generate_recommendations(result)]_vars

\* A predict call has returned after an earlier predict and generate_recommendations
\* on another input: the recommendations held are those of the earlier result.
C8_Witness ==
    /\ pc = "predicted"
    /\ IsResult(result)
    /\ recommendations # NoResult
    /\ recommendations # generate_recommendations(result)

-----------------------------------------------------------------------------
(* Properties of predict with a failing classifier, under SpecClassifier *)

\* C11 as stated: if the classifier raises during predict or answers a probability
\* vector whose length is not the number of categories, predict surfaces an error
\* and returns no result.
C11_ClassifierFailureSurfaces ==
    (pc = "raised" \/ (pc = "predicted" /\ Len(ml_probs) # Len(StockLabelMap))) =>
        IsError(result) /\ ~IsResult(result)

-----------------------------------------------------------------------------
(* Properties of extract_features, under SpecExtract *)

FeatureKeys ==
    {"cgpa", "skills", "has_internship", "has_projects", "has_research",
     "has_certifications"}

\* Every keyword extract_features looks for.
AllKeywords ==
    <<"intern", "internship", "project", "research", "publication", "paper",
      "certified", "certificate", "certification">>

\* No CGPA/GPA pattern, no vocabulary entry and no keyword matches the text.
NoPatternOrKeyword(text) ==
    /\ \A i \in DOMAIN CgpaWords : SearchNumber(text, CgpaWords[i]) = 0
    /\ \A i \in DOMAIN skills_db : ~Contains(ToLower(skills_db[i]), ToLower(text))
    /\ \A i \in DOMAIN AllKeywords : ~Contains(AllKeywords[i], ToLower(text))

\* C12: extract_features returns a feature record for every text (cgpa absent or a
\* non-negative number, skills a list of vocabulary entries, four booleans), and
\* for a text that no pattern and no keyword matches, the empty string included,
\* it returns cgpa absent, an empty skill list and all four signals false.
C12_ExtractTotalWithDefaults ==
    pc = "extracted" =>
        /\ DOMAIN features = FeatureKeys
        /\ features.cgpa = None \/ RLe(Zero, features.cgpa)
        /\ Range(features.skills) \subseteq Range(skills_db)
        /\ {features.has_internship, features.has_projects, features.has_research,
            features.has_certifications} \subseteq BOOLEAN
        /\ NoPatternOrKeyword(resume_text) => features = NoEvidence

\* A text that mentions GPA without a number and matches nothing else has been
\* extracted.
C12_Witness ==
    /\ pc = "extracted"
    /\ resume_text = "GPA: n/a hello"
    /\ NoPatternOrKeyword(resume_text)
    /\ features = NoEvidence

\* The empty string has been extracted.
C12_WitnessEmpty ==
    /\ pc = "extracted"
    /\ resume_text = ""
    /\ features = NoEvidence

\* The number n of the CGPA/GPA mention the search settles on: the leftmost
\* "CGPA" mention followed by a number, else the leftmost such "GPA" mention.
MentionedNumber(text) ==
    LET word == IF SearchNumber(text, CgpaWords[1]) # 0 THEN CgpaWords[1] ELSE CgpaWords[2]
    IN  FloatAt(text, SearchNumber(text, word))

\* C13 as stated: whenever _extract_cgpa returns a value, it is n when n <= 10 and
\* n/10 when n > 10 for the number n that follows the mention, and it lies in
\* [0,10].
C13_CgpaOnTenScale ==
    (pc = "extracted" /\ features.cgpa # None) =>
        LET n == MentionedNumber(resume_text)
        IN  /\ features.cgpa = IF RLe(n, Num(10)) THEN n ELSE RDiv(n, Num(10))
            /\ RLe(Zero, features.cgpa)
            /\ RLe(features.cgpa, Num(10))

\* Position of an entry in the vocabulary
VocabularyIndex(sk) == CHOOSE i \in DOMAIN skills_db : skills_db[i] = sk

\* C14: the skills returned by _extract_skills are exactly the vocabulary entries
\* whose lowercase form is a substring of the lowercased text, listed in
\* vocabulary order with no entry repeated, and the skill count the rule scorer
\* uses is the number of those entries.
C14_SkillsAreVocabularyMatches ==
    pc = "extracted" =>
        LET skills == features.skills
            matched == {i \in DOMAIN skills_db :
                           Contains(ToLower(skills_db[i]), ToLower(resume_text))}
        IN  /\ Range(skills) = {skills_db[i] : i \in matched}
            /\ \A a, b \in DOMAIN skills :
                  a < b => VocabularyIndex(skills[a]) < VocabularyIndex(skills[b])
            /\ SkillsCount(features) = Cardinality(matched)

\* A text in upper and lower case has been extracted: "JAVASCRIPT" yields Java,
\* JavaScript and C, "react" yields React.
C14_Witness ==
    /\ pc = "extracted"
    /\ resume_text = "react JAVASCRIPT"
    /\ features.skills = <<"Java", "JavaScript", "C", "React">>

-----------------------------------------------------------------------------
(* Properties of generate_recommendations, under SpecRecommend *)

CoreLanguages == "Learn core programming: Python, Java, or JavaScript"
BuildProjects == "Build 3-4 substantial projects"
OnlineCourses == "Take online courses (Coursera, Udemy)"
Hackathons == "Participate in hackathons"
AcademicPerformance == "Focus on improving academic performance"

\* C15 as stated: when the winning category is Skill Improvement,
\* generate_recommendations returns, in this order, the core-language suggestion
\* iff skill count < 5, the build-projects suggestion iff has_projects is false,
\* the online-courses and hackathon suggestions always, and the
\* academic-performance suggestion iff CGPA is present and < 7.0; for 2 skills,
\* no projects and cgpa 6.5 that is 5 items.
C15_SkillImprovementRecommendations ==
    (pc = "recommended" /\ result.category = SI) =>
        LET f == result.features
        IN  /\ recommendations =
                  Opt(Len(f.skills) < 5, CoreLanguages)
                  \o Opt(~f.has_projects, BuildProjects)
                  \o <<OnlineCourses, Hackathons>>
                  \o Opt(f.cgpa # None /\ RLt(f.cgpa, Num(7)), AcademicPerformance)
            /\ (Len(f.skills) = 2 /\ ~f.has_projects /\ f.cgpa = Tenths(65)) =>
                  Len(recommendations) = 5

MoreTechnologies == "Learn 2-3 more in-demand technologies"
Certifications == "Get industry certifications (AWS, Azure, etc.)"
PracticeDsa == "Practice DSA on LeetCode/HackerRank"
GithubPortfolio == "Build strong GitHub portfolio"

HigherStudiesAdvice ==
    <<"Prepare for GRE/GATE exams", "Research universities and programs",
      "Request letters of recommendation", "Write compelling Statement of Purpose">>

ResearchFieldAdvice ==
    <<"Publish papers in conferences/journals", "Connect with professors in your field",
      "Apply for research internships", "Consider PhD programs">>

\* C16: for Private Job generate_recommendations returns the more-technologies
\* suggestion iff skill count < 10, then the certifications suggestion iff
\* has_certifications is false, then DSA practice and GitHub portfolio always; for
\* Higher Studies and for Research Field it returns the same four fixed
\* suggestions in the same order for every feature record.
C16_CategoryRecommendations ==
    pc = "recommended" =>
        LET f == result.features
        IN  /\ result.category = PJ =>
                  recommendations =
                      Opt(Len(f.skills) < 10, MoreTechnologies)
                      \o Opt(~f.has_certifications, Certifications)
                      \o <<PracticeDsa, GithubPortfolio>>
            /\ result.category = HS => recommendations = HigherStudiesAdvice
            /\ result.category = RF => recommendations = ResearchFieldAdvice

\* Recommendations have been derived for a Private Job result with ten skills and
\* certifications: only the two fixed suggestions remain.
C16_Witness ==
    /\ pc = "recommended"
    /\ result.category = PJ
    /\ Len(result.features.skills) = 10
    /\ result.features.has_certifications
    /\ recommendations = <<PracticeDsa, GithubPortfolio>>

\* Recommendations have been derived for a Higher Studies result.
C16_WitnessHigherStudies ==
    /\ pc = "recommended"
    /\ result.category = HS
    /\ Len(recommendations) = 4

\* Recommendations have been derived for a Research Field result.
C16_WitnessResearchField ==
    /\ pc = "recommended"
    /\ result.category = RF
    /\ Len(recommendations) = 4

\* The results predict returns for the features of the state under the other
\* classifier answers.
OtherResults ==
    UNION {{PredictFromFeatures(label_map, id_to_label, ml_weight, rule_weight,
                                result.features, id, p) : id \in TopIds(p)} :
              p \in Distributions(1)}

\* C17: generate_recommendations depends only on the winning category and the
\* feature record: a result that agrees with the one of the state on category and
\* features, whatever its confidence, fused probabilities, ml_prediction,
\* rule_prediction and source distributions, yields the same recommendations.
C17_RecommendationsDependOnCategoryAndFeatures ==
    pc = "recommended" =>
        /\ \A other \in OtherResults :
              (other.category = result.category /\ other.features = result.features) =>
                  generate_recommendations(other) = recommendations
        /\ \A c \in {Zero, One}, m, r \in Categories :
              generate_recommendations(
                  [result EXCEPT !.confidence = c, !.ml_prediction = m,
                                 !.rule_prediction = r,
                                 !.probabilities = result.ml_probabilities,
                                 !.ml_probabilities = result.rule_probabilities,
                                 !.rule_probabilities = result.probabilities])
              = recommendations

\* Recommendations have been derived for a result that shares its category and
\* features with a result of another confidence and another ML prediction.
C17_Witness ==
    /\ pc = "recommended"
    /\ \E other \in OtherResults :
          /\ other.category = result.category
          /\ other.features = result.features
          /\ other.confidence # result.confidence
          /\ other.ml_prediction # result.ml_prediction
          /\ other.probabilities # result.probabilities
          /\ generate_recommendations(other) = recommendations

-----------------------------------------------------------------------------
(* Properties of the source predictions, under SpecClassifier *)

\* The feature records of the one-phrase texts
PhraseFeatures == {extract_features(t) : t \in Texts(1)}

\* C18: in every result of predict, ml_prediction is a category of highest value
\* in ml_probabilities and rule_prediction is a category of highest value in
\* rule_probabilities; ml_probabilities is the classifier's vector and
\* rule_probabilities the rule scores of the features, both as they are before
\* the fusion, and neither prediction changes when the other source's
\* distribution changes.
C18_SourcePredictionsArePreFusion ==
    (pc = "predicted" /\ IsResult(result)) =>
        /\ result.ml_prediction \in DOMAIN result.ml_probabilities
        /\ \A k \in DOMAIN result.ml_probabilities :
              RLe(result.ml_probabilities[k],
                  result.ml_probabilities[result.ml_prediction])
        /\ \A k \in Categories :
              RLe(result.rule_probabilities[k],
                  result.rule_probabilities[result.rule_prediction])
        /\ \A i \in DOMAIN ml_probs :
              result.ml_probabilities[id_to_label[i - 1]] = ml_probs[i]
        /\ result.rule_probabilities = rule_based_score(result.features)
        /\ \A p \in Distributions(1) : \A id \in TopIds(p) :
              PredictFromFeatures(label_map, id_to_label, ml_weight, rule_weight,
                                  result.features, id, p).rule_prediction
              = result.rule_prediction
        /\ \A f \in PhraseFeatures :
              PredictFromFeatures(label_map, id_to_label, ml_weight, rule_weight,
                                  f, ml_pred_id, ml_probs).ml_prediction
              = result.ml_prediction

\* predict has returned a result whose two source predictions differ and whose
\* winning category is not the ML component's prediction.
C18_Witness ==
    /\ IsResult(result)
    /\ result.ml_prediction # result.rule_prediction
    /\ result.category # result.ml_prediction
    /\ resume_text # ""

-----------------------------------------------------------------------------
(* The weighting the application reports, under SpecCall *)

\* "**Ensemble Method:** 70% ML + 30% Rules", as the Model Insights expander
\* writes it.
ReportedMlWeight == Rat(70, 100)
ReportedRuleWeight == Rat(30, 100)

\* C19 as stated: the weighting the application reports, 70% ML + 30% rules, is
\* the weighting predict applies when it fuses the two distributions.
C19_ReportedWeightsAreApplied ==
    IsResult(result) =>
        /\ ml_weight = ReportedMlWeight
        /\ rule_weight = ReportedRuleWeight
        /\ result.probabilities =
              Ensemble(LabelKeys(label_map), ReportedMlWeight, ReportedRuleWeight,
                       result.ml_probabilities, result.rule_probabilities).probabilities

-----------------------------------------------------------------------------
(* Ties, under SpecRecommend *)

\* The categories of highest value in the distribution d
Highest(d) == {k \in Categories : \A j \in Categories : RLe(d[j], d[k])}

\* The first category of the set S in the order Private Job, Higher Studies,
\* Research Field, Skill Improvement
FirstInPriority(S) ==
    ScoreKeys[CHOOSE i \in DOMAIN ScoreKeys :
                 /\ ScoreKeys[i] \in S
                 /\ \A j \in DOMAIN ScoreKeys : ScoreKeys[j] \in S => i <= j]

\* C20: when two or more categories share the highest fused probability, predict
\* returns the one that comes first in the order Private Job, Higher Studies,
\* Research Field, Skill Improvement, and rule_prediction breaks ties among the
\* rule scores by the same order.
C20_TiesBrokenByPriorityOrder ==
    IsResult(result) =>
        /\ result.category = FirstInPriority(Highest(result.probabilities))
        /\ result.rule_prediction = FirstInPriority(Highest(result.rule_probabilities))

\* predict has returned for a fused distribution whose highest value is shared,
\* with a category other than the first of the order winning.
C20_Witness ==
    /\ IsResult(result)
    /\ Cardinality(Highest(result.probabilities)) >= 2
    /\ result.category # PJ

\* predict has returned for rule scores whose highest value is shared.
C20_WitnessRuleTie ==
    /\ IsResult(result)
    /\ Cardinality(Highest(result.rule_probabilities)) >= 2

\* Indices of the lowercased text at which the word is followed, after any colons
\* and whitespace, by a number
MentionsOf(text, word) ==
    {i \in 1..Len(text) : NumberStart(ToLower(text), word, i) # 0}

\* The CGPA value read from the mention of the word at index i
ValueOfMention(text, word, i) ==
    LET n == FloatAt(text, NumberStart(ToLower(text), word, i))
    IN  IF RLe(n, Num(10)) THEN n ELSE RDiv(n, Num(10))

Leftmost(S) == CHOOSE i \in S : \A j \in S : i <= j

\* The numbers that follow a CGPA or GPA mention, by the index of their first digit
MentionedNumbers(text) ==
    {NumberStart(ToLower(text), "gpa", i) : i \in MentionsOf(text, "gpa")}

\* C21 as stated: when a text contains several CGPA or GPA mentions each followed
\* by a number, _extract_cgpa takes its value from the mention that occurs first
\* in the text, whichever of the two words it uses.
C21_FirstMentionWins ==
    (pc = "extracted" /\ Cardinality(MentionedNumbers(resume_text)) >= 2) =>
        features.cgpa =
            ValueOfMention(resume_text, "gpa", Leftmost(MentionsOf(resume_text, "gpa")))

\* C21 amended: when a text contains several CGPA or GPA mentions each followed by
\* a number, _extract_cgpa takes its value from the leftmost mention of the word
\* CGPA that a number follows, and only when there is none from the leftmost
\* mention of GPA that a number follows.
C21_CgpaMentionBeforeGpaMention ==
    (pc = "extracted" /\ Cardinality(MentionedNumbers(resume_text)) >= 2) =>
        features.cgpa =
            IF MentionsOf(resume_text, "cgpa") # {}
            THEN ValueOfMention(resume_text, "cgpa",
                                Leftmost(MentionsOf(resume_text, "cgpa")))
            ELSE ValueOfMention(resume_text, "gpa",
                                Leftmost(MentionsOf(resume_text, "gpa")))

\* A text whose first mention says GPA and whose second says CGPA has been
\* extracted: the value is the one of the second mention.
C21_Witness ==
    /\ pc = "extracted"
    /\ resume_text = "gpa 6.5 CGPA: 9.2"
    /\ features.cgpa = Tenths(92)

-----------------------------------------------------------------------------
(* Further properties of rule_based_score, under SpecScore *)

\* The sum of the four values rule_based_score returned
RuleSum == RSum(rule_probs, ScoreKeys)

\* The categories with a positive returned score
Positive == {k \in Categories : RGt(rule_probs[k], Zero)}

\* C22 as stated: the four values rule_based_score returns sum to 1.0 for every
\* feature record.
C22_RuleScoresSumToOne ==
    pc = "scored" => RuleSum = One

\* C22 amended: the four values rule_based_score returns are scaled by their
\* maximum, not their sum: they sum to at least 1.0 and at most 4.0, and to
\* exactly 1.0 only when a single category has a positive score.
C22_RuleScoresSumAtLeastOne ==
    pc = "scored" =>
        /\ RGe(RuleSum, One)
        /\ RLe(RuleSum, Num(4))
        /\ RuleSum = One <=> Cardinality(Positive) = 1

\* A record whose four returned scores are all positive and sum to more than 2
\* has been scored.
C22_Witness ==
    /\ pc = "scored"
    /\ Cardinality(Positive) = 4
    /\ RGt(RuleSum, Num(2))

\* A record with a single positive score has been scored: the sum is 1.
C22_WitnessSingle ==
    /\ pc = "scored"
    /\ Cardinality(Positive) = 1
    /\ RuleSum = One

\* C23: for every feature record at least one category has a strictly positive raw
\* score before normalization (Private Job >= 35 when has_internship is true,
\* Skill Improvement >= 15 when it is false), so the uniform 0.25 branch of
\* rule_based_score is never taken.
C23_SomeRawScorePositive ==
    pc = "scored" =>
        /\ features.has_internship => RawScores(features)[PJ] >= 35
        /\ ~features.has_internship => RawScores(features)[SI] >= 15
        /\ MaxOf({ClampedScores(features)[k] : k \in Categories}) > 0
        /\ \E k \in Categories : rule_probs[k] = One
        /\ \E k \in Categories : rule_probs[k] # Quarter

\* A record without an internship whose Skill Improvement total is exactly 15 has
\* been scored.
C23_Witness ==
    /\ pc = "scored"
    /\ ~features.has_internship
    /\ RawScores(features)[SI] = 15
    /\ RGt(rule_probs[SI], Zero)

\* A record with an internship whose Private Job total is exactly 35 has been
\* scored.
C23_WitnessInternship ==
    /\ pc = "scored"
    /\ features.has_internship
    /\ RawScores(features)[PJ] = 35

-----------------------------------------------------------------------------
(* The sum predict renormalizes by, under SpecClassifier *)

\* ml_weight * ml.get(k, 0) + rule_weight * rule[k] for the result of the state
CombinedValue(k) ==
    RAdd(RMul(ml_weight, Get(result.ml_probabilities, k, Zero)),
         RMul(rule_weight, result.rule_probabilities[k]))

\* The sum of the combined values before renormalization
CombinedTotal ==
    RAdd(RAdd(CombinedValue(PJ), CombinedValue(HS)),
         RAdd(CombinedValue(RF), CombinedValue(SI)))

\* C24: in predict, with the four category names in label_map and non-negative ML
\* probabilities, the sum of the combined values before renormalization is at
\* least rule_weight (0.5) and so strictly positive for every text: the zero-sum
\* case is never reached and the fused values are always divided by the sum.
C24_CombinedTotalAtLeastRuleWeight ==
    IsResult(result) =>
        /\ rule_weight = Tenths(5)
        /\ RGe(CombinedTotal, rule_weight)
        /\ RGt(CombinedTotal, Zero)
        /\ \A k \in Categories :
              result.probabilities[k] = RDiv(CombinedValue(k), CombinedTotal)
        /\ RSum(result.probabilities, ScoreKeys) = One

\* predict has returned for a classifier vector of four zeros: the sum is carried
\* by the rule scores alone and equals rule_weight.
C24_Witness ==
    /\ IsResult(result)
    /\ Len(ml_probs) = 4
    /\ \A i \in DOMAIN ml_probs : ml_probs[i] = Zero
    /\ CombinedTotal = rule_weight
    /\ result.confidence = One

-----------------------------------------------------------------------------
(* Agreement of the two sources, under SpecCall *)

\* The category of highest ML probability and the one of highest rule score, ties
\* in each resolved by category order
MlTop == FirstInPriority(Highest(result.ml_probabilities))
RuleTop == FirstInPriority(Highest(result.rule_probabilities))

\* C25: whenever the category with the highest ML probability and the category
\* with the highest rule score are the same category (ties in each resolved by
\* category order), the category predict returns is that category.
C25_AgreementWins ==
    (IsResult(result) /\ MlTop = RuleTop) => result.category = MlTop

\* predict has returned, for a text with evidence, the category both sources put
\* first while the ML component leaves probability to other categories.
C25_Witness ==
    /\ IsResult(result)
    /\ MlTop = RuleTop
    /\ result.category = MlTop
    /\ RLt(result.ml_probabilities[MlTop], One)
    /\ RLt(result.confidence, One)
    /\ resume_text # ""

-----------------------------------------------------------------------------
(* The absent CGPA, under SpecScore *)

\* C26: rule_based_score treats an absent CGPA exactly like a CGPA of 0.0: for
\* every choice of the other features the distribution returned with cgpa absent
\* equals the one returned with cgpa 0.0, so an absent CGPA adds the 35 points of
\* the band cgpa < 6.0 to Skill Improvement.
C26_AbsentCgpaScoresAsZero ==
    (pc = "scored" /\ features.cgpa = None) =>
        /\ rule_probs = rule_based_score(WithCgpa(features, Zero))
        /\ RawScores(features) = RawScores(WithCgpa(features, Zero))
        /\ RawScores(features)[SI] = RawScores(WithCgpa(features, Num(7)))[SI] + 35

\* A record without CGPA has been scored whose 35 points change the outcome: with
\* a CGPA of 7.0 another category would have been the rule scorer's first.
C26_Witness ==
    /\ pc = "scored"
    /\ features.cgpa = None
    /\ rule_probs[SI] = One
    /\ RLt(rule_based_score(WithCgpa(features, Num(7)))[SI], One)

-----------------------------------------------------------------------------
(* The stored pair of the Streamlit session, under SpecApp *)

\* The session holds nothing, or a result together with the recommendations
\* computed from that result.
SessionConsistent ==
    \/ session_state = <<>>
    \/ /\ DOMAIN session_state = {"result", "recommendations"}
       /\ IsResult(session_state.result)
       /\ session_state.recommendations = generate_recommendations(session_state.result)

\* C27: across any sequence of uploads, Analyze clicks and failed analyses the
\* session state never holds a result without the recommendations computed from
\* that same result; the pair is stored only after predict and
\* generate_recommendations have both succeeded, and a failed analysis leaves the
\* previously stored pair unchanged.
C27_StoredPairConsistent ==
    /\ []SessionConsistent
    /\ [][/\ pc' = "failed" => session_state' = session_state
          /\ session_state' # session_state =>
                /\ pc' = "stored"
                /\ IsResult(result')
                /\ recommendations' = generate_recommendations(result')
                /\ session_state' =
                      [result |-> result', recommendations |-> recommendations']]_vars

\* An analysis of a newly uploaded file has failed while the session holds the
\* pair of an earlier analysis of another file.
C27_Witness ==
    /\ pc = "failed"
    /\ IsError(result)
    /\ session_state # <<>>
    /\ CanAnalyze
    /\ session_state.result.features # extract_features(uploaded_file.text)
    /\ SessionConsistent

====
